---- MODULE Spec2Model ----
(***************************************************************************)
(* Model of the vault supervisor of encrypted_fs_desktop                   *)
(* (encrypted_fs_desktop_common/src/vault_handler.rs).                     *)
(*                                                                         *)
(* One VaultHandler exists per vault id.  Its operations take &mut self,   *)
(* so the operations of one vault run one after the other, while the       *)
(* operations of different vaults interleave and meet at the shared        *)
(* db_conn mutex.  Every operation is cut into steps at the places where   *)
(* it touches the store, the mutex or the operating system.                *)
(*                                                                         *)
(* Outcomes of the store, of spawn, of kill and of the process probe are   *)
(* chosen by the environment.  The OS utilities (umount, ps, kill), the    *)
(* project directory and the log files are taken to be available, so the   *)
(* expect() calls on them do not panic; an exit status of a utility is     *)
(* still the environment's choice.  child.id() is Some between spawn and   *)
(* the probe because the child is never awaited there (line 136).          *)
(***************************************************************************)
EXTENDS Integers, Sequences, FiniteSets, TLC

\* ---- bounds of the model ------------------------------------------------
NumVaults == 2
NumNewPaths == 1
MaxCalls == 2

Vaults == 1..NumVaults
NewPaths == 1..NumNewPaths
InitPath(v) == 10 * v

NoVault == 0
NoChild == 0
NoRecord == [locked |-> TRUE, mount_point |-> 0, data_dir |-> 0]

\* ---- VaultHandlerError ---------------------------------------------------
VaultHandlerError ==
    {"CannotLockVault", "CannotUnlockVault", "CannotChangeMountPoint", "CannotChangeDataDir"}

\* ProcessStatus values the probe can report, "NotFound" standing for
\* sys.process(pid) = None
ProcessStatus == {"Run", "Dead", "Zombie", "Stop", "NotFound"}

VARIABLES
    posix,       \* cfg!(any(linux, unix, macos, freebsd, openbsd, netbsd))
    store,       \* the vault records behind db_conn
    child,       \* self.child of each VaultHandler: a pid, or NoChild
    procs,       \* processes spawned so far: pid -> [owner, alive]
    guard,       \* holder of the db_conn mutex, or NoVault
    pc,          \* position of each handler's current call
    op,          \* the operation called on the handler (kept after return)
    arg,         \* mount_point_v / data_dir_v of the call
    unlocked,    \* local `unlocked` of a change operation
    vault,       \* local `vault` read by unlock()
    new_child,   \* local `child` of unlock(), between spawn and self.child = Some(child)
    is_defunct,  \* local `is_defunct` of unlock()
    result,      \* what the last call returned
    trace,       \* what the current (or last) call has done so far
    pre,         \* record and handle of the vault when the call started
    ncalls,      \* number of calls made so far
    detail,      \* the ViewGroupDetail of the front-end: id, locked, mount_point, data_dir
    task,        \* the task a service_* method of the view has spawned
    rx_service,  \* ServiceReply messages sent to the view and not yet received
    rx_parent    \* UiReply messages sent to the parent of the view

\* the variables of the front-end
gui == <<detail, task, rx_service, rx_parent>>

vars == <<posix, store, child, procs, guard, pc, op, arg, unlocked, vault,
          new_child, is_defunct, result, trace, pre, ncalls, gui>>

\* ---- events of the trace -------------------------------------------------
Ev(e, a, b, s) == [e |-> e, a |-> a, b |-> b, s |-> s]
Log(v, evs) == [trace EXCEPT ![v] = @ \o evs]
B(ok) == IF ok THEN 1 ELSE 0

\* ---- the store -----------------------------------------------------------
\* mutant: the flag is written the wrong way round
db_update_locked_inverted(st, v, state) == [st EXCEPT ![v].locked = ~state]

\* dao.update(self.id, locked.eq(if state { 1 } else { 0 }))
db_update_locked(st, v, state) == [st EXCEPT ![v].locked = state]

\* mutant: the new mount point lands in the data_dir column
update_mount_point_wrong_column(st, v, mount_point_v) ==
    [st EXCEPT ![v].data_dir = mount_point_v]

\* dao.update(self.id, mount_point.eq(mount_point_v))
update_mount_point(st, v, mount_point_v) == [st EXCEPT ![v].mount_point = mount_point_v]

\* dao.update(self.id, data_dir.eq(data_dir_v))
update_data_dir(st, v, data_dir_v) == [st EXCEPT ![v].data_dir = data_dir_v]

\* ---- the front-end before a detail view is shown --------------------------
NoDetail == [id |-> NoVault, open |-> FALSE, locked |-> TRUE, mount_point |-> 0, data_dir |-> 0]
NoTask == [pc |-> "none", id |-> NoVault, f |-> "none", value |-> 0, picked |-> 0,
           result |-> "none"]
NoFrontEnd ==
    /\ detail = NoDetail
    /\ task = NoTask
    /\ rx_service = <<>>
    /\ rx_parent = <<>>

\* ---- VaultHandler::new ---------------------------------------------------
NewHandlers ==
    /\ posix \in BOOLEAN
    /\ \E l \in [Vaults -> BOOLEAN] :
          store = [v \in Vaults |->
                     [locked |-> l[v], mount_point |-> InitPath(v), data_dir |-> InitPath(v)]]
    /\ child = [v \in Vaults |-> NoChild]
    /\ procs = <<>>
    /\ guard = NoVault
    /\ pc = [v \in Vaults |-> "idle"]
    /\ op = [v \in Vaults |-> "none"]
    /\ arg = [v \in Vaults |-> 0]
    /\ unlocked = [v \in Vaults |-> FALSE]
    /\ vault = [v \in Vaults |-> NoRecord]
    /\ new_child = [v \in Vaults |-> NoChild]
    /\ is_defunct = [v \in Vaults |-> FALSE]
    /\ result = [v \in Vaults |-> "none"]
    /\ trace = [v \in Vaults |-> <<>>]
    /\ pre = [v \in Vaults |-> [rec |-> store[v], child |-> NoChild]]
    /\ ncalls = 0

\* the supervisor alone, its operations called directly
Init == NewHandlers /\ NoFrontEnd

\* ---- a caller invokes an operation on an idle handler --------------------
Call(v, o, a, start) ==
    /\ pc[v] = "idle"
    /\ ncalls < MaxCalls
    /\ ncalls' = ncalls + 1
    /\ op' = [op EXCEPT ![v] = o]
    /\ arg' = [arg EXCEPT ![v] = a]
    /\ pc' = [pc EXCEPT ![v] = start]
    /\ result' = [result EXCEPT ![v] = "none"]
    /\ trace' = [trace EXCEPT ![v] = <<>>]
    /\ pre' = [pre EXCEPT ![v] = [rec |-> store[v], child |-> child[v]]]
    /\ UNCHANGED <<posix, store, child, procs, guard, unlocked, vault, new_child, is_defunct>>

call_lock(v) == Call(v, "lock", 0, "l_acquire") /\ UNCHANGED gui
call_unlock(v) == Call(v, "unlock", 0, "u_check") /\ UNCHANGED gui
call_change_mount_point(v, mount_point_v) ==
    Call(v, "change_mount_point", mount_point_v, "c_start") /\ UNCHANGED gui
call_change_data_dir(v, data_dir_v) ==
    Call(v, "change_data_dir", data_dir_v, "c_start") /\ UNCHANGED gui

\* ---- returning -----------------------------------------------------------
\* mutant: the change operation goes on after a failed lock()
LockReturnsToCaller_ignores_error(v, r) == op[v] = "lock"

\* lock() returns r: to the caller, or into the change operation that
\* called it as `self.lock().await?`
LockReturnsToCaller(v, r) == op[v] = "lock" \/ r # "Ok"
PcAfterLock(v, r) == IF LockReturnsToCaller(v, r) THEN "idle" ELSE "c_acquire"
ResultAfterLock(v, r) == IF LockReturnsToCaller(v, r) THEN r ELSE result[v]

\* the locals of a call are dropped when it returns
DropLocals(v) ==
    /\ unlocked' = [unlocked EXCEPT ![v] = FALSE]
    /\ vault' = [vault EXCEPT ![v] = NoRecord]
    /\ new_child' = [new_child EXCEPT ![v] = NoChild]
    /\ is_defunct' = [is_defunct EXCEPT ![v] = FALSE]

\* mutant: lock() returns without dropping its guard
LockReturn_keeps_guard(v, r, evs) ==
    /\ UNCHANGED guard
    /\ trace' = Log(v, evs)
    /\ pc' = [pc EXCEPT ![v] = PcAfterLock(v, r)]
    /\ result' = [result EXCEPT ![v] = ResultAfterLock(v, r)]
    /\ IF LockReturnsToCaller(v, r)
          THEN DropLocals(v)
          ELSE UNCHANGED <<unlocked, vault, new_child, is_defunct>>

\* lock() returns r while holding the guard, after the events evs
LockReturn(v, r, evs) ==
    /\ guard' = NoVault
    /\ trace' = Log(v, evs \o <<Ev("release", 0, 0, "")>>)
    /\ pc' = [pc EXCEPT ![v] = PcAfterLock(v, r)]
    /\ result' = [result EXCEPT ![v] = ResultAfterLock(v, r)]
    /\ IF LockReturnsToCaller(v, r)
          THEN DropLocals(v)
          ELSE UNCHANGED <<unlocked, vault, new_child, is_defunct>>

\* mutant: unlock() returns with the mutex still held
UnlockReturn_keeps_guard(v, r, evs) ==
    /\ UNCHANGED guard
    /\ trace' = Log(v, evs)
    /\ pc' = [pc EXCEPT ![v] = "idle"]
    /\ result' = [result EXCEPT ![v] = r]
    /\ DropLocals(v)

\* unlock() returns r while holding the guard, after the events evs; inside a
\* change operation `self.unlock().await?` hands r on to the caller unchanged
UnlockReturn(v, r, evs) ==
    /\ guard' = NoVault
    /\ trace' = Log(v, evs \o <<Ev("release", 0, 0, "")>>)
    /\ pc' = [pc EXCEPT ![v] = "idle"]
    /\ result' = [result EXCEPT ![v] = r]
    /\ DropLocals(v)

\* ---- lock() --------------------------------------------------------------
\* mutant: lock() does not wait for the holder of the mutex
lock_acquire_no_wait(v) ==
    /\ pc[v] = "l_acquire"
    /\ guard' = v
    /\ pc' = [pc EXCEPT ![v] = "l_update"]
    /\ trace' = Log(v, <<Ev("acquire", 0, 0, "")>>)
    /\ UNCHANGED <<posix, gui, store, child, procs, op, arg, unlocked, vault, new_child,
                   is_defunct, result, pre, ncalls>>

\* let mut guard = self.db_conn.lock().await;
lock_acquire(v) ==
    /\ pc[v] = "l_acquire"
    /\ guard = NoVault
    /\ guard' = v
    /\ pc' = [pc EXCEPT ![v] = "l_update"]
    /\ trace' = Log(v, <<Ev("acquire", 0, 0, "")>>)
    /\ UNCHANGED <<posix, gui, store, child, procs, op, arg, unlocked, vault, new_child,
                   is_defunct, result, pre, ncalls>>

\* mutant: the handle is taken before the store write is known to have succeeded
lock_update_takes_first(v) ==
    /\ pc[v] = "l_update"
    /\ guard = v
    /\ child' = [child EXCEPT ![v] = NoChild]
    /\ \E ok \in BOOLEAN :
         LET ev == <<Ev("db_update_locked", 1, B(ok), "")>> IN
         IF ~ok
           THEN /\ LockReturn(v, "CannotLockVault", ev)
                /\ UNCHANGED store
           ELSE /\ store' = [store EXCEPT ![v].locked = TRUE]
                /\ LockReturn(v, "Ok", ev)
    /\ UNCHANGED <<posix, gui, procs, op, arg, pre, ncalls>>

\* self.db_update_locked(true, &mut dao), then `if self.child.is_none()`
lock_update(v) ==
    /\ pc[v] = "l_update"
    /\ guard = v
    /\ \E ok \in BOOLEAN :
         LET ev == <<Ev("db_update_locked", 1, B(ok), "")>> IN
         IF ~ok
           THEN /\ LockReturn(v, "CannotLockVault", ev)
                /\ UNCHANGED store
           ELSE /\ store' = db_update_locked(store, v, TRUE)
                /\ IF child[v] = NoChild
                     THEN LockReturn(v, "Ok", ev)
                     ELSE /\ pc' = [pc EXCEPT ![v] = "l_kill"]
                          /\ trace' = Log(v, ev)
                          /\ UNCHANGED <<guard, result, unlocked, vault, new_child, is_defunct>>
    /\ UNCHANGED <<posix, gui, child, procs, op, arg, pre, ncalls>>

\* self.child.take().unwrap().kill().await
lock_kill(v) ==
    /\ pc[v] = "l_kill"
    /\ guard = v
    /\ child' = [child EXCEPT ![v] = NoChild]
    /\ \E ok \in BOOLEAN :
         LET ev == <<Ev("take", child[v], 0, ""), Ev("kill", child[v], B(ok), "")>> IN
         IF ~ok
           THEN /\ LockReturn(v, "CannotLockVault", ev)
                /\ UNCHANGED procs
           ELSE /\ procs' = [procs EXCEPT ![child[v]].alive = FALSE]
                /\ IF posix
                     THEN /\ pc' = [pc EXCEPT ![v] = "l_umount"]
                          /\ trace' = Log(v, ev)
                          /\ UNCHANGED <<guard, result, unlocked, vault, new_child, is_defunct>>
                     ELSE LockReturn(v, "Ok", ev)
    /\ UNCHANGED <<posix, gui, store, op, arg, pre, ncalls>>

\* mutant: the unmount is given the data dir of the record
lock_umount_uses_data_dir(v) ==
    /\ pc[v] = "l_umount"
    /\ guard = v
    /\ \E ok \in BOOLEAN :
         IF ~ok
           THEN LockReturn(v, "CannotLockVault", <<Ev("get", 0, 0, "")>>)
           ELSE \E status \in BOOLEAN :
                  LockReturn(v, "Ok", <<Ev("get", 0, 1, ""),
                                        Ev("umount", store[v].data_dir, B(status), "")>>)
    /\ UNCHANGED <<posix, gui, store, child, procs, op, arg, pre, ncalls>>

\* dao.get(self.id), then umount <vault.mount_point>; the exit status of
\* umount is not looked at
lock_umount(v) ==
    /\ pc[v] = "l_umount"
    /\ guard = v
    /\ \E ok \in BOOLEAN :
         IF ~ok
           THEN LockReturn(v, "CannotLockVault", <<Ev("get", 0, 0, "")>>)
           ELSE \E status \in BOOLEAN :
                  LockReturn(v, "Ok", <<Ev("get", 0, 1, ""),
                                        Ev("umount", store[v].mount_point, B(status), "")>>)
    /\ UNCHANGED <<posix, gui, store, child, procs, op, arg, pre, ncalls>>

\* ---- unlock() ------------------------------------------------------------
\* mutant: unlock() has no early return for a tracked handle
unlock_check_always_spawns(v) ==
    /\ pc[v] = "u_check"
    /\ pc' = [pc EXCEPT ![v] = "u_acquire"]
    /\ UNCHANGED <<posix, gui, store, child, procs, guard, op, arg, trace, pre, ncalls,
                   result, unlocked, vault, new_child, is_defunct>>

\* if self.child.is_some() { return Ok(()) }
unlock_check(v) ==
    /\ pc[v] = "u_check"
    /\ IF child[v] # NoChild
         THEN /\ pc' = [pc EXCEPT ![v] = "idle"]
              /\ result' = [result EXCEPT ![v] = "Ok"]
              /\ DropLocals(v)
         ELSE /\ pc' = [pc EXCEPT ![v] = "u_acquire"]
              /\ UNCHANGED <<result, unlocked, vault, new_child, is_defunct>>
    /\ UNCHANGED <<posix, gui, store, child, procs, guard, op, arg, trace, pre, ncalls>>

\* mutant: unlock() does not wait for the holder of the mutex
unlock_acquire_no_wait(v) ==
    /\ pc[v] = "u_acquire"
    /\ guard' = v
    /\ pc' = [pc EXCEPT ![v] = "u_get"]
    /\ trace' = Log(v, <<Ev("acquire", 0, 0, "")>>)
    /\ UNCHANGED <<posix, gui, store, child, procs, op, arg, unlocked, vault, new_child,
                   is_defunct, result, pre, ncalls>>

\* let mut guard = self.db_conn.lock().await;
unlock_acquire(v) ==
    /\ pc[v] = "u_acquire"
    /\ guard = NoVault
    /\ guard' = v
    /\ pc' = [pc EXCEPT ![v] = "u_get"]
    /\ trace' = Log(v, <<Ev("acquire", 0, 0, "")>>)
    /\ UNCHANGED <<posix, gui, store, child, procs, op, arg, unlocked, vault, new_child,
                   is_defunct, result, pre, ncalls>>

\* the error kind unlock() returns when dao.get fails
GetFailedInUnlock == "CannotLockVault"

\* mutant: locked = false is written as soon as the record has been read
unlock_get_writes_flag_first(v) ==
    /\ pc[v] = "u_get"
    /\ guard = v
    /\ \E ok \in BOOLEAN :
         IF ~ok
           THEN /\ UnlockReturn(v, GetFailedInUnlock, <<Ev("get", 0, 0, "")>>)
                /\ UNCHANGED store
           ELSE /\ vault' = [vault EXCEPT ![v] = store[v]]
                /\ store' = db_update_locked(store, v, FALSE)
                /\ pc' = [pc EXCEPT ![v] = "u_spawn"]
                /\ trace' = Log(v, <<Ev("get", 0, 1, "")>>)
                /\ UNCHANGED <<guard, result, unlocked, new_child, is_defunct>>
    /\ UNCHANGED <<posix, gui, child, procs, op, arg, pre, ncalls>>

\* let vault = match dao.get(self.id as i32) { ... }
unlock_get(v) ==
    /\ pc[v] = "u_get"
    /\ guard = v
    /\ \E ok \in BOOLEAN :
         IF ~ok
           THEN UnlockReturn(v, GetFailedInUnlock, <<Ev("get", 0, 0, "")>>)
           ELSE /\ vault' = [vault EXCEPT ![v] = store[v]]
                /\ pc' = [pc EXCEPT ![v] = "u_spawn"]
                /\ trace' = Log(v, <<Ev("get", 0, 1, "")>>)
                /\ UNCHANGED <<guard, result, unlocked, new_child, is_defunct>>
    /\ UNCHANGED <<posix, gui, store, child, procs, op, arg, pre, ncalls>>

\* mutant: the handle is stored right after spawn, before the health check
unlock_spawn_tracks_early(v) ==
    /\ pc[v] = "u_spawn"
    /\ guard = v
    /\ \E ok \in BOOLEAN :
         IF ~ok
           THEN /\ UnlockReturn(v, "CannotUnlockVault", <<Ev("spawn_failed", 0, 0, "")>>)
                /\ UNCHANGED <<procs, child>>
           ELSE /\ procs' = Append(procs, [owner |-> v, alive |-> TRUE])
                /\ new_child' = [new_child EXCEPT ![v] = Len(procs) + 1]
                /\ child' = [child EXCEPT ![v] = Len(procs) + 1]
                /\ pc' = [pc EXCEPT ![v] = "u_sleep"]
                /\ trace' = Log(v, <<Ev("spawn", vault[v].mount_point, vault[v].data_dir, ""),
                                     Ev("spawned", Len(procs) + 1, 0, "")>>)
                /\ UNCHANGED <<guard, result, unlocked, vault, is_defunct>>
    /\ UNCHANGED <<posix, gui, store, op, arg, pre, ncalls>>

\* Command::new(..).arg("--mount-point").arg(&vault.mount_point)
\*     .arg("--data-dir").arg(&vault.data_dir).arg("--umount-on-start").spawn()
unlock_spawn(v) ==
    /\ pc[v] = "u_spawn"
    /\ guard = v
    /\ \E ok \in BOOLEAN :
         IF ~ok
           THEN /\ UnlockReturn(v, "CannotUnlockVault", <<Ev("spawn_failed", 0, 0, "")>>)
                /\ UNCHANGED procs
           ELSE /\ procs' = Append(procs, [owner |-> v, alive |-> TRUE])
                /\ new_child' = [new_child EXCEPT ![v] = Len(procs) + 1]
                /\ pc' = [pc EXCEPT ![v] = "u_sleep"]
                /\ trace' = Log(v, <<Ev("spawn", vault[v].mount_point, vault[v].data_dir, ""),
                                     Ev("spawned", Len(procs) + 1, 0, "")>>)
                /\ UNCHANGED <<guard, result, unlocked, vault, is_defunct>>
    /\ UNCHANGED <<posix, gui, store, child, op, arg, pre, ncalls>>

\* tokio::time::sleep(Duration::from_secs(8)).await
unlock_sleep(v) ==
    /\ pc[v] = "u_sleep"
    /\ guard = v
    /\ pc' = [pc EXCEPT ![v] = "u_process"]
    /\ trace' = Log(v, <<Ev("sleep", 0, 0, "")>>)
    /\ UNCHANGED <<posix, gui, store, child, procs, guard, op, arg, unlocked, vault, new_child,
                   is_defunct, result, pre, ncalls>>

\* mutant: a stopped process is not taken for defunct
StatusIsDefunct_without_stop(status) == status \in {"Dead", "Zombie"}

\* process.status() == Dead || == Zombie || == Stop
StatusIsDefunct(status) == status \in {"Dead", "Zombie", "Stop"}

\* a process with this status has ended (a stopped one has not)
StatusIsEnded(status) == status \in {"Dead", "Zombie", "NotFound"}

\* mutant: ps is run whatever the status check found
unlock_process_always_ps(v) ==
    /\ pc[v] = "u_process"
    /\ guard = v
    /\ \E status \in ProcessStatus :
         LET ev == <<Ev("process", new_child[v], 0, status)>> IN
         /\ procs' = IF status \in {"Dead", "Zombie", "NotFound"}
                       THEN [procs EXCEPT ![new_child[v]].alive = FALSE]
                       ELSE procs
         /\ IF status = "NotFound"
              THEN UnlockReturn(v, "CannotUnlockVault", ev)
              ELSE /\ is_defunct' = [is_defunct EXCEPT ![v] = status \in {"Dead", "Zombie", "Stop"}]
                   /\ pc' = [pc EXCEPT ![v] =
                               IF posix THEN "u_ps"
                               ELSE IF status \in {"Dead", "Zombie", "Stop"} THEN "u_defunct"
                               ELSE "u_store"]
                   /\ trace' = Log(v, ev)
                   /\ UNCHANGED <<guard, result, unlocked, vault, new_child>>
    /\ UNCHANGED <<posix, gui, store, child, op, arg, pre, ncalls>>

\* sys.refresh_processes(); match sys.process(Pid::from_u32(child.id().unwrap()))
unlock_process(v) ==
    /\ pc[v] = "u_process"
    /\ guard = v
    /\ \E status \in ProcessStatus :
         LET ev == <<Ev("process", new_child[v], 0, status)>> IN
         /\ procs' = IF StatusIsEnded(status)
                       THEN [procs EXCEPT ![new_child[v]].alive = FALSE]
                       ELSE procs
         /\ IF status = "NotFound"
              THEN UnlockReturn(v, "CannotUnlockVault", ev)
              ELSE /\ is_defunct' = [is_defunct EXCEPT ![v] = StatusIsDefunct(status)]
                   /\ pc' = [pc EXCEPT ![v] =
                               IF StatusIsDefunct(status) THEN "u_defunct"
                               ELSE IF posix THEN "u_ps" ELSE "u_store"]
                   /\ trace' = Log(v, ev)
                   /\ UNCHANGED <<guard, result, unlocked, vault, new_child>>
    /\ UNCHANGED <<posix, gui, store, child, op, arg, pre, ncalls>>

\* mutant: the "defunct" marker of ps is not acted upon
unlock_ps_ignores_defunct(v) ==
    /\ pc[v] = "u_ps"
    /\ guard = v
    /\ \E contains_defunct \in BOOLEAN :
         /\ procs' = IF contains_defunct
                       THEN [procs EXCEPT ![new_child[v]].alive = FALSE]
                       ELSE procs
         /\ pc' = [pc EXCEPT ![v] = "u_store"]
         /\ trace' = Log(v, <<Ev("ps", new_child[v], B(contains_defunct), "")>>)
    /\ UNCHANGED <<posix, gui, store, child, guard, op, arg, unlocked, vault, new_child,
                   is_defunct, result, pre, ncalls>>

\* ps -f <pid>; is_defunct = true when a line contains "defunct"
unlock_ps(v) ==
    /\ pc[v] = "u_ps"
    /\ guard = v
    /\ \E contains_defunct \in BOOLEAN :
         /\ is_defunct' = [is_defunct EXCEPT ![v] = contains_defunct]
         /\ procs' = IF contains_defunct
                       THEN [procs EXCEPT ![new_child[v]].alive = FALSE]
                       ELSE procs
         /\ pc' = [pc EXCEPT ![v] = IF contains_defunct THEN "u_defunct" ELSE "u_store"]
         /\ trace' = Log(v, <<Ev("ps", new_child[v], B(contains_defunct), "")>>)
    /\ UNCHANGED <<posix, gui, store, child, guard, op, arg, unlocked, vault, new_child,
                   result, pre, ncalls>>

\* mutant: the handle of the defunct process is stored before the error is returned
unlock_defunct_keeps_handle(v) ==
    /\ pc[v] = "u_defunct"
    /\ guard = v
    /\ is_defunct[v]
    /\ child' = [child EXCEPT ![v] = new_child[v]]
    /\ IF posix
         THEN /\ \E ends \in BOOLEAN :
                   procs' = IF ends THEN [procs EXCEPT ![new_child[v]].alive = FALSE]
                            ELSE procs
              /\ UnlockReturn(v, "CannotUnlockVault", <<Ev("force_kill", new_child[v], 0, "")>>)
         ELSE /\ UnlockReturn(v, "CannotUnlockVault", <<>>)
              /\ UNCHANGED procs
    /\ UNCHANGED <<posix, gui, store, op, arg, pre, ncalls>>

\* if is_defunct { kill <pid> on POSIX; return Err(CannotUnlockVault) }
\* the signal of `kill` ends a stopped process or stays pending
unlock_defunct(v) ==
    /\ pc[v] = "u_defunct"
    /\ guard = v
    /\ is_defunct[v]
    /\ IF posix
         THEN /\ \E ends \in BOOLEAN :
                   procs' = IF ends THEN [procs EXCEPT ![new_child[v]].alive = FALSE]
                            ELSE procs
              /\ UnlockReturn(v, "CannotUnlockVault", <<Ev("force_kill", new_child[v], 0, "")>>)
         ELSE /\ UnlockReturn(v, "CannotUnlockVault", <<>>)
              /\ UNCHANGED procs
    /\ UNCHANGED <<posix, gui, store, child, op, arg, pre, ncalls>>

\* mutant: the handle is stored only once the store write has succeeded
unlock_store_tracks_after_write(v) ==
    /\ pc[v] = "u_store"
    /\ guard = v
    /\ ~is_defunct[v]
    /\ \E ok \in BOOLEAN :
         LET ev == <<Ev("set_child", new_child[v], 0, ""),
                     Ev("db_update_locked", 0, B(ok), "")>> IN
         IF ~ok
           THEN /\ UnlockReturn(v, "CannotUnlockVault", ev)
                /\ UNCHANGED <<store, child>>
           ELSE /\ store' = [store EXCEPT ![v].locked = FALSE]
                /\ child' = [child EXCEPT ![v] = new_child[v]]
                /\ UnlockReturn(v, "Ok", ev)
    /\ UNCHANGED <<posix, gui, procs, op, arg, pre, ncalls>>

\* mutant: the error of the final store write is dropped
unlock_store_ignores_write_error(v) ==
    /\ pc[v] = "u_store"
    /\ guard = v
    /\ ~is_defunct[v]
    /\ child' = [child EXCEPT ![v] = new_child[v]]
    /\ \E ok \in BOOLEAN :
         LET ev == <<Ev("set_child", new_child[v], 0, ""),
                     Ev("db_update_locked", 0, B(ok), "")>> IN
         /\ store' = IF ok THEN db_update_locked(store, v, FALSE) ELSE store
         /\ UnlockReturn(v, "Ok", ev)
    /\ UNCHANGED <<posix, gui, procs, op, arg, pre, ncalls>>

\* self.child = Some(child); self.db_update_locked(false, &mut dao)
unlock_store(v) ==
    /\ pc[v] = "u_store"
    /\ guard = v
    /\ ~is_defunct[v]
    /\ child' = [child EXCEPT ![v] = new_child[v]]
    /\ \E ok \in BOOLEAN :
         LET ev == <<Ev("set_child", new_child[v], 0, ""),
                     Ev("db_update_locked", 0, B(ok), "")>> IN
         IF ~ok
           THEN /\ UnlockReturn(v, "CannotUnlockVault", ev)
                /\ UNCHANGED store
           ELSE /\ store' = db_update_locked(store, v, FALSE)
                /\ UnlockReturn(v, "Ok", ev)
    /\ UNCHANGED <<posix, gui, procs, op, arg, pre, ncalls>>

\* ---- change_mount_point() / change_data_dir() ---------------------------
\* mutant: the change operation relocks whether or not a handle is tracked
change_start_always_relocks(v) ==
    /\ pc[v] = "c_start"
    /\ unlocked' = [unlocked EXCEPT ![v] = TRUE]
    /\ pc' = [pc EXCEPT ![v] = "l_acquire"]
    /\ UNCHANGED <<posix, gui, store, child, procs, guard, op, arg, vault, new_child,
                   is_defunct, result, trace, pre, ncalls>>

\* mutant: the change operation empties self.child while it looks at it
change_start_takes_handle(v) ==
    /\ pc[v] = "c_start"
    /\ unlocked' = [unlocked EXCEPT ![v] = (child[v] # NoChild)]
    /\ child' = [child EXCEPT ![v] = NoChild]
    /\ pc' = [pc EXCEPT ![v] = IF child[v] # NoChild THEN "l_acquire" ELSE "c_acquire"]
    /\ UNCHANGED <<posix, gui, store, procs, guard, op, arg, vault, new_child,
                   is_defunct, result, trace, pre, ncalls>>

\* let unlocked = self.child.is_some(); if unlocked { self.lock().await?; }
change_start(v) ==
    /\ pc[v] = "c_start"
    /\ unlocked' = [unlocked EXCEPT ![v] = (child[v] # NoChild)]
    /\ pc' = [pc EXCEPT ![v] = IF child[v] # NoChild THEN "l_acquire" ELSE "c_acquire"]
    /\ UNCHANGED <<posix, gui, store, child, procs, guard, op, arg, vault, new_child,
                   is_defunct, result, trace, pre, ncalls>>

\* let mut guard = self.db_conn.lock().await;   (inside the block)
change_acquire(v) ==
    /\ pc[v] = "c_acquire"
    /\ guard = NoVault
    /\ guard' = v
    /\ pc' = [pc EXCEPT ![v] = "c_update"]
    /\ trace' = Log(v, <<Ev("acquire", 0, 0, "")>>)
    /\ UNCHANGED <<posix, gui, store, child, procs, op, arg, unlocked, vault, new_child,
                   is_defunct, result, pre, ncalls>>

\* the error kind of a failed field update
ChangeError(o) ==
    IF o = "change_mount_point" THEN "CannotChangeMountPoint" ELSE "CannotChangeDataDir"

\* the field update of the operation o
ChangeUpdate(st, v, o, value) ==
    IF o = "change_mount_point" THEN update_mount_point(st, v, value)
    ELSE update_data_dir(st, v, value)

\* what follows the block: `if unlocked { self.unlock().await?; }  Ok(())`
change_end(v, ev) ==
    /\ guard' = NoVault
    /\ trace' = Log(v, ev \o <<Ev("release", 0, 0, "")>>)
    /\ IF unlocked[v]
         THEN /\ pc' = [pc EXCEPT ![v] = "u_check"]
              /\ UNCHANGED <<result, unlocked, vault, new_child, is_defunct>>
         ELSE /\ pc' = [pc EXCEPT ![v] = "idle"]
              /\ result' = [result EXCEPT ![v] = "Ok"]
              /\ DropLocals(v)

\* a change operation leaves with r from inside the block
change_fail(v, r, ev) ==
    /\ guard' = NoVault
    /\ trace' = Log(v, ev \o <<Ev("release", 0, 0, "")>>)
    /\ pc' = [pc EXCEPT ![v] = "idle"]
    /\ result' = [result EXCEPT ![v] = r]
    /\ DropLocals(v)

\* match dao.update(self.id as i32, mount_point.eq(mount_point_v)) { ... }
\* change_data_dir also prints dao.get(self.id).unwrap().data_dir
change_update(v) ==
    /\ pc[v] = "c_update"
    /\ guard = v
    /\ \E ok \in BOOLEAN :
         LET ev == <<Ev("update_" \o op[v], arg[v], B(ok), "")>> IN
         IF ~ok
           THEN /\ change_fail(v, ChangeError(op[v]), ev)
                /\ UNCHANGED store
           ELSE /\ store' = ChangeUpdate(store, v, op[v], arg[v])
                /\ IF op[v] = "change_data_dir"
                     THEN \E got \in BOOLEAN :
                            IF got THEN change_end(v, ev \o <<Ev("get", 0, 1, "")>>)
                            ELSE change_fail(v, "Panic", ev \o <<Ev("get", 0, 0, "")>>)
                     ELSE change_end(v, ev)
    /\ UNCHANGED <<posix, gui, child, procs, op, arg, pre, ncalls>>

\* ---- the system ----------------------------------------------------------
Next ==
    \E v \in Vaults :
       \/ call_lock(v)
       \/ call_unlock(v)
       \/ \E mount_point_v \in NewPaths : call_change_mount_point(v, mount_point_v)
       \/ \E data_dir_v \in NewPaths : call_change_data_dir(v, data_dir_v)
       \/ lock_acquire(v)
       \/ lock_update(v)
       \/ lock_kill(v)
       \/ lock_umount(v)
       \/ unlock_check(v)
       \/ unlock_acquire(v)
       \/ unlock_get(v)
       \/ unlock_spawn(v)
       \/ unlock_sleep(v)
       \/ unlock_process(v)
       \/ unlock_ps(v)
       \/ unlock_defunct(v)
       \/ unlock_store(v)
       \/ change_start(v)
       \/ change_acquire(v)
       \/ change_update(v)

Spec == Init /\ [][Next]_vars

TypeOK ==
    /\ posix \in BOOLEAN
    /\ guard \in Vaults \cup {NoVault}
    /\ \A v \in Vaults :
         /\ child[v] \in 0..Len(procs)
         /\ store[v].locked \in BOOLEAN
         /\ result[v] \in VaultHandlerError \cup {"Ok", "Panic", "none"}
    /\ ncalls \in 0..MaxCalls

\* ---- the front-end: ViewGroupDetail --------------------------------------
\* (encrypted_fs_desktop_gui/src/detail.rs)  The view shows one vault.  Each
\* service_* method spawns a task that connects to the service, makes one
\* call and hands the answer to handle_empty_response.  The store calls of
\* the view (db_update, db_reload) and the directory listing of a picked
\* path are taken to succeed, so that their unwrap() does not end the
\* front-end; a picked directory is empty.  One task is in flight at a time.

\* the variables of the supervisor
supervisor == <<posix, store, child, procs, guard, pc, op, arg, unlocked, vault,
                new_child, is_defunct, result, trace, pre, ncalls>>

\* UiReply::VaultUpdated(b) and UiReply::Error(_)
VaultUpdated(b) == [m |-> "VaultUpdated", b |-> b]
UiError == [m |-> "Error", b |-> FALSE]

\* the ServiceReply variants that carry an EmptyReply
EmptyReplies == {"UnlockVaultReply", "LockVaultReply", "ChangeMountPoint", "ChangeDataDir"}

\* ViewGroupDetail::new_by_item(item, tx_parent)
new_by_item(item_id) ==
    [id |-> item_id, open |-> TRUE, locked |-> store[item_id].locked,
     mount_point |-> store[item_id].mount_point, data_dir |-> store[item_id].data_dir]

\* the paths the folder dialog can return for the vault shown
PickablePaths == NewPaths \cup {InitPath(detail.id)}

\* RT.spawn(async move { ... }) of a service_* method: the task owns id, the
\* reply constructor f and value; picked is the path chosen in the dialog,
\* kept for reading the outcome
SpawnTask(f, value, picked) ==
    task' = [pc |-> "connect", id |-> detail.id, f |-> f, value |-> value,
             picked |-> picked, result |-> "none"]

\* the view can start a service call
CanClick == detail.open /\ task.pc = "none" /\ ncalls < MaxCalls

\* the lock / unlock button: if self.locked { service_unlock_vault() } else
\* { service_lock_vault() }
click_lock_unlock ==
    /\ CanClick
    /\ SpawnTask(IF detail.locked THEN "UnlockVaultReply" ELSE "LockVaultReply", 0, 0)
    /\ UNCHANGED <<detail, rx_service, rx_parent, supervisor>>

\* the "..." button of the mount point: self.mount_point = Some(path);
\* self.db_update(mount_point.eq(..)); self.service_change_mount_point(old_mount_point)
pick_mount_point(path) ==
    /\ CanClick
    /\ path # detail.mount_point
    /\ detail' = [detail EXCEPT !.mount_point = path]
    /\ store' = update_mount_point(store, detail.id, path)
    /\ rx_parent' = Append(rx_parent, VaultUpdated(FALSE))
    /\ SpawnTask("ChangeMountPoint", detail.mount_point, path)
    /\ UNCHANGED <<rx_service, posix, child, procs, guard, pc, op, arg, unlocked, vault,
                   new_child, is_defunct, result, trace, pre, ncalls>>

\* the "..." button of the data dir: self.data_dir = Some(path);
\* self.db_update(data_dir.eq(..)); self.service_change_data_dir(old_data_dir)
pick_data_dir(path) ==
    /\ CanClick
    /\ path # detail.data_dir
    /\ detail' = [detail EXCEPT !.data_dir = path]
    /\ store' = update_data_dir(store, detail.id, path)
    /\ rx_parent' = Append(rx_parent, VaultUpdated(FALSE))
    /\ SpawnTask("ChangeDataDir", detail.data_dir, path)
    /\ UNCHANGED <<rx_service, posix, child, procs, guard, pc, op, arg, unlocked, vault,
                   new_child, is_defunct, result, trace, pre, ncalls>>

\* Self::create_client(tx.clone()).await: on a connection error
\* tx.send(ServiceReply::Error(..)).unwrap() and the task ends; the unwrap()
\* panics when the view is gone.  A failed connection uses up one of the
\* calls the model allows.
create_client ==
    /\ task.pc = "connect"
    /\ \E connected \in BOOLEAN :
         IF connected
           THEN /\ task' = [task EXCEPT !.pc = "call"]
                /\ UNCHANGED <<rx_service, ncalls>>
           ELSE /\ ncalls' = ncalls + 1
                /\ IF detail.open
                     THEN /\ rx_service' = Append(rx_service, "Error")
                          /\ task' = [task EXCEPT !.pc = "none", !.result = "connect_error"]
                     ELSE /\ task' = [task EXCEPT !.pc = "none", !.result = "panic"]
                          /\ UNCHANGED rx_service
    /\ UNCHANGED <<detail, rx_parent, posix, store, child, procs, guard, pc, op, arg,
                   unlocked, vault, new_child, is_defunct, result, trace, pre>>

\* the operation of the vault's handler that the service runs for a call
ServiceOp(f) ==
    CASE f = "UnlockVaultReply" -> "unlock"
      [] f = "LockVaultReply" -> "lock"
      [] f = "ChangeMountPoint" -> "change_mount_point"
      [] f = "ChangeDataDir" -> "change_data_dir"

\* where that operation starts
ServiceStart(f) ==
    CASE f = "UnlockVaultReply" -> "u_check"
      [] f = "LockVaultReply" -> "l_acquire"
      [] OTHER -> "c_start"

\* client.unlock(request) / lock / change_mount_point / change_data_dir: the
\* request { id, value } reaches the service
rpc_call ==
    /\ task.pc = "call"
    /\ Call(task.id, ServiceOp(task.f), task.value, ServiceStart(task.f))
    /\ task' = [task EXCEPT !.pc = "wait"]
    /\ UNCHANGED <<detail, rx_service, rx_parent>>

\* what the call gives the task for the handler's result r: Ok(response), a
\* Status that converts to a VaultServiceError, or another Status
RpcResult(r) ==
    IF r = "Ok" THEN "ok"
    ELSE IF r \in VaultHandlerError THEN "service_error"
    ELSE "status"

\* ....await: the call returns to the task; the transport can fail on its own
rpc_return ==
    /\ task.pc = "wait"
    /\ pc[task.id] = "idle"
    /\ result[task.id] # "none"
    /\ \E transport_ok \in BOOLEAN :
         task' = [task EXCEPT !.pc = "handle",
                              !.result = IF transport_ok THEN RpcResult(result[task.id])
                                         ELSE "status"]
    /\ UNCHANGED <<detail, rx_service, rx_parent, supervisor>>

\* the ServiceReply handle_empty_response builds for the result of the call
ReplyFor(t) ==
    IF t.result = "ok" THEN t.f
    ELSE IF t.result = "service_error" THEN "VaultServiceError"
    ELSE "Error"

\* the UiReply the parent gets when the view is gone
ParentReplyFor(t) == IF t.result = "ok" THEN VaultUpdated(TRUE) ELSE UiError

\* mutant: a failed tx.send is ignored
handle_empty_response_ignores_closed ==
    /\ task.pc = "handle"
    /\ IF detail.open
         THEN rx_service' = Append(rx_service, ReplyFor(task))
         ELSE UNCHANGED rx_service
    /\ task' = [task EXCEPT !.pc = "none"]
    /\ UNCHANGED <<detail, rx_parent, supervisor>>

\* Self::handle_empty_response(result, f, tx, tx_parent): tx.send(..), and
\* tx_parent.send(..) when tx.send returned Err
handle_empty_response ==
    /\ task.pc = "handle"
    /\ IF detail.open
         THEN /\ rx_service' = Append(rx_service, ReplyFor(task))
              /\ UNCHANGED rx_parent
         ELSE /\ rx_parent' = Append(rx_parent, ParentReplyFor(task))
              /\ UNCHANGED rx_service
    /\ task' = [task EXCEPT !.pc = "none"]
    /\ UNCHANGED <<detail, supervisor>>

\* db_reload(): locked, mount_point and data_dir are read again from the store
db_reload(d) ==
    [d EXCEPT !.locked = store[d.id].locked,
              !.mount_point = store[d.id].mount_point,
              !.data_dir = store[d.id].data_dir]

\* update(): if let Ok(reply) = self.rx_service.try_recv() { match reply { .. } }
update_recv ==
    /\ detail.open
    /\ rx_service # <<>>
    /\ rx_service' = Tail(rx_service)
    /\ LET reply == Head(rx_service) IN
       /\ detail' = CASE reply = "UnlockVaultReply" -> [detail EXCEPT !.locked = FALSE]
                      [] reply = "LockVaultReply" -> [detail EXCEPT !.locked = TRUE]
                      [] reply \in {"ChangeMountPoint", "ChangeDataDir"} -> db_reload(detail)
                      [] OTHER -> detail
       /\ rx_parent' = IF reply \in EmptyReplies
                         THEN Append(rx_parent, VaultUpdated(FALSE))
                         ELSE rx_parent
    /\ UNCHANGED <<task, supervisor>>

\* the parent drops the view: rx_service is dropped with it and every later
\* tx.send returns Err
destroy_view ==
    /\ detail.open
    /\ detail' = [detail EXCEPT !.open = FALSE]
    /\ rx_service' = <<>>
    /\ UNCHANGED <<task, rx_parent, supervisor>>

\* the front-end shows vault 1 and is the only caller of the service; the
\* vaults it does not show are locked
InitGui ==
    /\ NewHandlers
    /\ detail = new_by_item(1)
    /\ \A v \in Vaults \ {detail.id} : store[v].locked
    /\ task = NoTask
    /\ rx_service = <<>>
    /\ rx_parent = <<>>

NextGui ==
    \/ click_lock_unlock
    \/ \E path \in PickablePaths : pick_mount_point(path)
    \/ \E path \in PickablePaths : pick_data_dir(path)
    \/ create_client
    \/ rpc_call
    \/ rpc_return
    \/ handle_empty_response
    \/ update_recv
    \/ destroy_view
    \/ \E v \in Vaults :
          \/ lock_acquire(v)
          \/ lock_update(v)
          \/ lock_kill(v)
          \/ lock_umount(v)
          \/ unlock_check(v)
          \/ unlock_acquire(v)
          \/ unlock_get(v)
          \/ unlock_spawn(v)
          \/ unlock_sleep(v)
          \/ unlock_process(v)
          \/ unlock_ps(v)
          \/ unlock_defunct(v)
          \/ unlock_store(v)
          \/ change_start(v)
          \/ change_acquire(v)
          \/ change_update(v)

SpecGui == InitGui /\ [][NextGui]_vars

\* ---- reading the state of a call -----------------------------------------
\* the call of operation o on vault v has returned
Returned(v, o) == pc[v] = "idle" /\ op[v] = o /\ result[v] # "none"

\* the positions of the events named e in the trace of v
Events(v, e) == {i \in DOMAIN trace[v] : trace[v][i].e = e}
Did(v, e) == Events(v, e) # {}

\* the live processes spawned for vault v
LiveChildren(v) == {p \in DOMAIN procs : procs[p].owner = v /\ procs[p].alive}

\* the positions between acquiring and releasing the db_conn mutex
CriticalSection ==
    {"l_update", "l_kill", "l_umount", "u_get", "u_spawn", "u_sleep", "u_process",
     "u_ps", "u_defunct", "u_store", "c_update"}
InCriticalSection(v) == pc[v] \in CriticalSection
AtAcquire(v) == pc[v] \in {"l_acquire", "u_acquire", "c_acquire"}

\* ---- C1 ------------------------------------------------------------------
\* C1: at most one process spawned for a vault id is alive, whatever calls
\* were made and whatever failed.
C1_AtMostOneLiveChild == \A v \in Vaults : Cardinality(LiveChildren(v)) <= 1

\* ---- C2 ------------------------------------------------------------------
\* C2: at most one operation, over all vault ids, is between acquiring and
\* releasing the shared store lock.
C2_OneInCriticalSection ==
    /\ Cardinality({v \in Vaults : InCriticalSection(v)}) <= 1
    /\ \A v \in Vaults : InCriticalSection(v) <=> guard = v

\* an operation is inside its critical section while another waits to acquire
C2_Witness ==
    \E v, w \in Vaults : v # w /\ InCriticalSection(v) /\ AtAcquire(w)

\* ---- C3 ------------------------------------------------------------------
\* C3: unlock() on a vault whose handle is tracked returns success and does
\* nothing: no event at all (no acquisition, read, write, spawn or probe),
\* and the handle and the record are those of before the call.
C3_UnlockTrackedIsNoop ==
    \A v \in Vaults :
       (Returned(v, "unlock") /\ pre[v].child # NoChild) =>
           /\ result[v] = "Ok"
           /\ trace[v] = <<>>
           /\ child[v] = pre[v].child
           /\ store[v] = pre[v].rec

\* unlock() has returned on a vault whose handle was tracked
C3_Witness ==
    \E v \in Vaults : Returned(v, "unlock") /\ pre[v].child # NoChild /\ result[v] = "Ok"

\* ---- C4 ------------------------------------------------------------------
\* the store write of locked = state by the current call of v succeeded / failed
WroteLocked(v, state, ok) ==
    \E i \in Events(v, "db_update_locked") :
       trace[v][i].a = B(state) /\ trace[v][i].b = B(ok)

\* C4: lock() on a vault with no tracked handle sends no termination request
\* and issues no unmount; it returns success exactly when its store write
\* succeeded, and then the record has locked = true and is otherwise as
\* before; called in the state it leaves (locked = true, no handle) it
\* returns success again and leaves that state as it is.
C4_LockUntrackedWritesOnly ==
    \A v \in Vaults :
       (Returned(v, "lock") /\ pre[v].child = NoChild) =>
           /\ ~Did(v, "take") /\ ~Did(v, "kill") /\ ~Did(v, "umount")
           /\ child[v] = NoChild
           /\ IF WroteLocked(v, TRUE, TRUE)
                THEN /\ result[v] = "Ok"
                     /\ store[v] = [pre[v].rec EXCEPT !.locked = TRUE]
                     /\ pre[v].rec.locked => store[v] = pre[v].rec
                ELSE /\ result[v] = "CannotLockVault"
                     /\ store[v] = pre[v].rec

\* lock() has returned success on a vault that was already locked and untracked
C4_Witness ==
    \E v \in Vaults :
       /\ Returned(v, "lock") /\ result[v] = "Ok"
       /\ pre[v].child = NoChild /\ pre[v].rec.locked
       /\ ncalls = 2 /\ \A w \in Vaults \ {v} : op[w] = "none"

\* ---- C5 ------------------------------------------------------------------
\* C5: when the store write of locked = true in lock() fails, the call
\* returns CannotLockVault with the handle still tracked, no termination
\* request, no unmount, and the record as before.
C5_FailedLockWriteChangesNothing ==
    \A v \in Vaults :
       (pc[v] = "idle" /\ result[v] # "none" /\ WroteLocked(v, TRUE, FALSE)) =>
           /\ result[v] = "CannotLockVault"
           /\ child[v] = pre[v].child
           /\ store[v] = pre[v].rec
           /\ ~Did(v, "take") /\ ~Did(v, "kill") /\ ~Did(v, "umount")
           /\ pre[v].child # NoChild => procs[pre[v].child].alive

\* lock() failed at its store write while a handle was tracked
C5_Witness ==
    \E v \in Vaults :
       /\ Returned(v, "lock") /\ WroteLocked(v, TRUE, FALSE)
       /\ pre[v].child # NoChild /\ child[v] = pre[v].child

\* ---- C6 ------------------------------------------------------------------
\* the probe of the current call of v reported a status of the set S
Probed(v, S) == \E i \in Events(v, "process") : trace[v][i].s \in S

\* the pid the current call of v got from spawn
SpawnedPid(v) == trace[v][CHOOSE i \in Events(v, "spawned") : TRUE].a

\* C6: when the probe reports the spawned process as Zombie, Dead or Stop,
\* unlock() (called directly or by a change operation) returns
\* CannotUnlockVault, tracks no handle and does not write locked = false; on
\* a POSIX-like platform it has issued `kill` for the spawned pid after the
\* probe, elsewhere it has not.
C6_DefunctStatusFailsUnlock ==
    \A v \in Vaults :
       (pc[v] = "idle" /\ result[v] # "none" /\ Probed(v, {"Zombie", "Dead", "Stop"})) =>
           /\ result[v] = "CannotUnlockVault"
           /\ child[v] = NoChild
           /\ ~Did(v, "set_child")
           /\ ~WroteLocked(v, FALSE, TRUE) /\ ~WroteLocked(v, FALSE, FALSE)
           /\ op[v] = "unlock" => store[v] = pre[v].rec
           /\ op[v] # "unlock" => store[v].locked
           /\ IF posix
                THEN \E i \in Events(v, "process"), j \in Events(v, "force_kill") :
                        i < j /\ trace[v][j].a = SpawnedPid(v)
                ELSE ~Did(v, "force_kill")

\* unlock() has returned after the probe reported a stopped process on POSIX
C6_Witness ==
    \E v \in Vaults :
       /\ Returned(v, "unlock") /\ Probed(v, {"Stop"})
       /\ posix /\ Did(v, "force_kill")

\* ---- C7 ------------------------------------------------------------------
\* C7: every failing unlock() returns CannotUnlockVault, the failed read of
\* the record at its start included.
C7_UnlockFailsAsCannotUnlockVault ==
    \A v \in Vaults :
       (Returned(v, "unlock") /\ result[v] # "Ok") => result[v] = "CannotUnlockVault"

\* ---- C8 ------------------------------------------------------------------
\* C8: change_mount_point returns success or CannotChangeMountPoint and
\* change_data_dir returns success or CannotChangeDataDir, also when the
\* embedded lock() or unlock() is what failed.
C8_ChangeReturnsOwnErrorKind ==
    \A v \in Vaults :
       /\ (Returned(v, "change_mount_point") /\ result[v] \in VaultHandlerError)
              => result[v] = "CannotChangeMountPoint"
       /\ (Returned(v, "change_data_dir") /\ result[v] \in VaultHandlerError)
              => result[v] = "CannotChangeDataDir"

\* ---- C9 ------------------------------------------------------------------
\* C9: a change_mount_point(value) that succeeds on a vault whose handle was
\* tracked has killed the old process, then persisted mount_point = value,
\* then spawned a process with that mount point; it ends with a new handle
\* tracked, the process alive, and locked = false.
C9_ChangeMountPointRestarts ==
    \A v \in Vaults :
       (Returned(v, "change_mount_point") /\ pre[v].child # NoChild /\ result[v] = "Ok") =>
           /\ \E i \in Events(v, "kill"), j \in Events(v, "update_change_mount_point"),
                 k \in Events(v, "spawn") :
                   /\ i < j /\ j < k
                   /\ trace[v][i].a = pre[v].child /\ trace[v][i].b = 1
                   /\ trace[v][j].a = arg[v] /\ trace[v][j].b = 1
                   /\ trace[v][k].a = arg[v]
                   /\ trace[v][k].b = pre[v].rec.data_dir
           /\ Cardinality(Events(v, "kill")) = 1
           /\ Cardinality(Events(v, "spawn")) = 1
           /\ child[v] \notin {NoChild, pre[v].child}
           /\ child[v] = SpawnedPid(v)
           /\ procs[child[v]].alive /\ ~procs[pre[v].child].alive
           /\ store[v] = [locked |-> FALSE, mount_point |-> arg[v],
                          data_dir |-> pre[v].rec.data_dir]

\* change_mount_point has succeeded on a vault that was unlocked, with a new path
C9_Witness ==
    \E v \in Vaults :
       /\ Returned(v, "change_mount_point") /\ pre[v].child # NoChild /\ result[v] = "Ok"
       /\ arg[v] # pre[v].rec.mount_point
       /\ child[v] # NoChild

\* ---- C10 -----------------------------------------------------------------
\* the record with the field of operation o set to value
WithField(rec, o, value) ==
    IF o = "change_mount_point" THEN [rec EXCEPT !.mount_point = value]
    ELSE [rec EXCEPT !.data_dir = value]

\* C10: change_mount_point / change_data_dir on a vault with no tracked
\* handle spawns and terminates nothing, issues no unmount, does not write
\* the locked flag and leaves no handle; the record is the one of before
\* with the field set to the new value when the update succeeded, and the
\* one of before when it failed with the operation's own error kind.
C10_ChangeLockedOnlyPersists ==
    \A v \in Vaults, o \in {"change_mount_point", "change_data_dir"} :
       (Returned(v, o) /\ pre[v].child = NoChild) =>
           /\ \A e \in {"spawn", "spawned", "take", "kill", "umount", "force_kill",
                        "db_update_locked", "set_child", "process", "ps"} : ~Did(v, e)
           /\ child[v] = NoChild
           /\ \E i \in Events(v, "update_" \o o) :
                /\ Events(v, "update_" \o o) = {i}
                /\ trace[v][i].a = arg[v]
                /\ IF trace[v][i].b = 1
                     THEN /\ store[v] = WithField(pre[v].rec, o, arg[v])
                          /\ result[v] \in {"Ok", "Panic"}
                          /\ result[v] = "Panic" => o = "change_data_dir"
                     ELSE /\ store[v] = pre[v].rec
                          /\ result[v] = ChangeError(o)

\* both change operations have succeeded on vaults that were locked
C10_Witness ==
    \E v, w \in Vaults :
       /\ Returned(v, "change_mount_point") /\ pre[v].child = NoChild /\ result[v] = "Ok"
       /\ store[v].mount_point = arg[v] /\ arg[v] # pre[v].rec.mount_point
       /\ Returned(w, "change_data_dir") /\ pre[w].child = NoChild /\ result[w] = "Ok"
       /\ store[w].data_dir = arg[w] /\ arg[w] # pre[w].rec.data_dir

\* ---- C11 -----------------------------------------------------------------
\* the events of the current call of v up to its first release of the mutex
FirstRelease(v) == CHOOSE i \in Events(v, "release") : \A j \in Events(v, "release") : i <= j

\* the lock() embedded in the change operation on v has failed: its store
\* write, its kill or its read of the record returned an error
EmbeddedLockFailed(v) ==
    /\ op[v] \in {"change_mount_point", "change_data_dir"}
    /\ pre[v].child # NoChild
    /\ Did(v, "release")
    /\ \E i \in 1..FirstRelease(v) :
          trace[v][i].e \in {"db_update_locked", "kill", "get"} /\ trace[v][i].b = 0

\* C11: when the lock() embedded in change_mount_point / change_data_dir
\* fails, the operation has returned lock()'s error without a field update
\* and without a re-unlock: mount_point and data_dir are the old ones, the
\* mutex was acquired once, nothing was spawned.
C11_FailedRelockAborts ==
    \A v \in Vaults :
       EmbeddedLockFailed(v) =>
           /\ pc[v] = "idle"
           /\ result[v] = "CannotLockVault"
           /\ ~Did(v, "update_change_mount_point") /\ ~Did(v, "update_change_data_dir")
           /\ store[v].mount_point = pre[v].rec.mount_point
           /\ store[v].data_dir = pre[v].rec.data_dir
           /\ Cardinality(Events(v, "acquire")) = 1
           /\ ~Did(v, "spawn") /\ ~Did(v, "spawn_failed") /\ ~Did(v, "set_child")

\* a change operation has returned after the kill of its embedded lock() failed
C11_Witness ==
    \E v \in Vaults :
       /\ EmbeddedLockFailed(v) /\ pc[v] = "idle"
       /\ \E i \in Events(v, "kill") : trace[v][i].b = 0
       /\ arg[v] # pre[v].rec.mount_point

\* ---- C12 -----------------------------------------------------------------
\* C12: when the spawned process passed the health check and the store write
\* of locked = false fails, unlock() returns CannotUnlockVault with the new
\* handle tracked and its process alive; the locked flag is the one from
\* before the write (for unlock() called directly, the whole record is).
C12_FailedUnlockWriteKeepsHandle ==
    \A v \in Vaults :
       WroteLocked(v, FALSE, FALSE) =>
           /\ pc[v] = "idle"
           /\ result[v] = "CannotUnlockVault"
           /\ Probed(v, {"Run"})
           /\ child[v] = SpawnedPid(v)
           /\ procs[child[v]].alive
           /\ op[v] = "unlock" => store[v] = pre[v].rec
           /\ op[v] # "unlock" => store[v].locked

\* unlock() has failed at its final store write on a vault whose flag was true
C12_Witness ==
    \E v \in Vaults :
       /\ Returned(v, "unlock") /\ WroteLocked(v, FALSE, FALSE)
       /\ child[v] # NoChild /\ store[v].locked

\* ---- C13 -----------------------------------------------------------------
\* the change operation on v, called with a tracked handle, got through its
\* lock() and its field update and then returned an error of its unlock()
ReunlockFailed(v) ==
    /\ pc[v] = "idle"
    /\ op[v] \in {"change_mount_point", "change_data_dir"}
    /\ pre[v].child # NoChild
    /\ \E i \in Events(v, "update_" \o op[v]) : trace[v][i].b = 1
    /\ result[v] \in VaultHandlerError

\* C13 (as claimed): after a failed re-unlock the record holds the new field
\* value, locked is true and no handle is tracked.
C13_FailedReunlockLeavesNoHandle ==
    \A v \in Vaults :
       ReunlockFailed(v) =>
           /\ store[v] = WithField([pre[v].rec EXCEPT !.locked = TRUE], op[v], arg[v])
           /\ child[v] = NoChild

\* C13 (amended): after a failed re-unlock nothing is rolled back: the
\* record holds the new field value and locked = true; no handle is tracked,
\* unless what failed is the final store write of unlock(), in which case the
\* newly spawned process is alive and tracked.
C13_FailedReunlockNoRollback ==
    \A v \in Vaults :
       ReunlockFailed(v) =>
           /\ store[v] = WithField([pre[v].rec EXCEPT !.locked = TRUE], op[v], arg[v])
           /\ ~procs[pre[v].child].alive
           /\ IF WroteLocked(v, FALSE, FALSE)
                THEN child[v] = SpawnedPid(v) /\ procs[child[v]].alive
                ELSE child[v] = NoChild

\* a change operation has failed in its re-unlock at spawn, the new path persisted
C13_Witness ==
    \E v \in Vaults :
       /\ ReunlockFailed(v) /\ Did(v, "spawn_failed")
       /\ op[v] = "change_mount_point"
       /\ store[v].mount_point = arg[v] /\ arg[v] # pre[v].rec.mount_point

\* ---- C14 -----------------------------------------------------------------
\* the event e of the current call of v that ended with b = 0
Failed(v, e) == \E i \in Events(v, e) : trace[v][i].b = 0

\* C14: lock() returns CannotLockVault when its store write failed, its kill
\* failed, its forced unmount failed or its read of the record failed, and
\* returns success only when none of them happened.
C14_LockFailsOnEveryFailure ==
    \A v \in Vaults :
       Returned(v, "lock") =>
           /\ result[v] \in {"Ok", "CannotLockVault"}
           /\ result[v] = "CannotLockVault" <=>
                 \/ Failed(v, "db_update_locked")
                 \/ Failed(v, "kill")
                 \/ Failed(v, "umount")
                 \/ Failed(v, "get")

\* ---- a vault that is already unlocked ------------------------------------
\* what a successful unlock() of v leaves in its trace, pid being the process
\* it spawned with the paths of rec
UnlockedTrace(pid, rec) ==
    <<Ev("acquire", 0, 0, ""), Ev("get", 0, 1, ""),
      Ev("spawn", rec.mount_point, rec.data_dir, ""), Ev("spawned", pid, 0, ""),
      Ev("sleep", 0, 0, ""), Ev("process", pid, 0, "Run")>>
    \o (IF posix THEN <<Ev("ps", pid, 0, "")>> ELSE <<>>)
    \o <<Ev("set_child", pid, 0, ""), Ev("db_update_locked", 0, 1, ""),
         Ev("release", 0, 0, "")>>

\* the record of v before any call
FreshRecord(v) == [locked |-> TRUE, mount_point |-> InitPath(v), data_dir |-> InitPath(v)]

\* the handlers after unlock() has succeeded once on vault 1 and no other
\* call was made
RunningState ==
    /\ store = [v \in Vaults |-> [FreshRecord(v) EXCEPT !.locked = (v # 1)]]
    /\ child = [v \in Vaults |-> IF v = 1 THEN 1 ELSE NoChild]
    /\ procs = <<[owner |-> 1, alive |-> TRUE]>>
    /\ guard = NoVault
    /\ pc = [v \in Vaults |-> "idle"]
    /\ op = [v \in Vaults |-> IF v = 1 THEN "unlock" ELSE "none"]
    /\ arg = [v \in Vaults |-> 0]
    /\ unlocked = [v \in Vaults |-> FALSE]
    /\ vault = [v \in Vaults |-> NoRecord]
    /\ new_child = [v \in Vaults |-> NoChild]
    /\ is_defunct = [v \in Vaults |-> FALSE]
    /\ result = [v \in Vaults |-> IF v = 1 THEN "Ok" ELSE "none"]
    /\ trace = [v \in Vaults |-> IF v = 1 THEN UnlockedTrace(1, FreshRecord(1)) ELSE <<>>]
    /\ pre = [v \in Vaults |-> [rec |-> FreshRecord(v), child |-> NoChild]]

\* the system started with vault 1 unlocked, the calls counted from there
InitRunning ==
    /\ posix \in BOOLEAN
    /\ RunningState
    /\ ncalls = 0
    /\ NoFrontEnd

SpecRunning == InitRunning /\ [][Next]_vars

\* ---- C15 -----------------------------------------------------------------
\* the call in progress on v has acquired the mutex at least once
StartedLocking(v) == pc[v] # "idle" /\ Did(v, "acquire")

\* C15 (as claimed): from the first acquisition of the mutex by an operation
\* until that operation returns, no operation on another vault holds the mutex.
C15_HeldUntilReturn ==
    \A v \in Vaults : StartedLocking(v) => guard \in {v, NoVault}

\* the acquisitions of the current call of v that it has not released
HeldCount(v) == Cardinality(Events(v, "acquire")) - Cardinality(Events(v, "release"))

\* C15 (amended): lock() and unlock() called directly hold the mutex from
\* their acquisition until they return.  A change operation acquires and
\* releases it once for each of its embedded lock(), its field update and
\* its embedded unlock(): it holds the mutex inside those steps and not
\* between them, where operations on other vaults can take it.
C15_HeldPerStep ==
    \A v \in Vaults :
       /\ (StartedLocking(v) /\ op[v] \in {"lock", "unlock"}) =>
              guard = v /\ Cardinality(Events(v, "acquire")) = 1 /\ ~Did(v, "release")
       /\ (StartedLocking(v) /\ op[v] \in {"change_mount_point", "change_data_dir"}) =>
              /\ guard = v <=> InCriticalSection(v)
              /\ pc[v] \in {"c_acquire", "u_check", "u_acquire"} => guard # v
              /\ HeldCount(v) = IF guard = v THEN 1 ELSE 0
              /\ Cardinality(Events(v, "acquire")) <= 3
       /\ pc[v] = "idle" => guard # v /\ HeldCount(v) = 0

\* a change operation is between its embedded lock() and its field update
\* while an operation on another vault holds the mutex
C15_Witness ==
    \E v, w \in Vaults :
       /\ v # w
       /\ op[v] \in {"change_mount_point", "change_data_dir"}
       /\ pc[v] = "c_acquire" /\ Did(v, "release")
       /\ guard = w /\ InCriticalSection(w)

\* ---- C16 -----------------------------------------------------------------
\* the positions whose step reads self.child: the is_some() of unlock()
\* (line 89) and of the change operations (lines 198, 226), the is_none()
\* of lock() (line 55)
ReadsChild == {"u_check", "c_start", "l_update"}

\* the positions whose step writes self.child: take() in lock() (line 60),
\* self.child = Some(child) in unlock() (line 181)
WritesChild == {"l_kill", "u_store"}

\* handler v takes a step from one of the positions S
StepsFrom(v, S) == pc[v] \in S /\ pc'[v] # pc[v]

\* C16 (as claimed): every read and every write of self.child is made by an
\* operation that holds the mutex.
C16_ChildAccessUnderLock ==
    [][\A v \in Vaults : StepsFrom(v, ReadsChild \cup WritesChild) => guard = v]_vars

\* C16 (amended): every write of self.child, and the is_none() read of
\* lock(), is made while holding the mutex; the is_some() reads that open
\* unlock() and the change operations are made without it and change
\* nothing.  The handle of a vault changes only in a step of that vault's
\* own call.
C16_ChildWritesUnderLock ==
    [][\A v \in Vaults :
          /\ child'[v] # child[v] => guard = v /\ StepsFrom(v, WritesChild)
          /\ StepsFrom(v, WritesChild \cup {"l_update"}) => guard = v
          /\ StepsFrom(v, {"u_check", "c_start"}) => guard # v /\ guard' # v]_vars

\* unlock() on v has read self.child and waits for the mutex another vault holds
C16_Witness ==
    \E v, w \in Vaults :
       v # w /\ pc[v] = "u_acquire" /\ trace[v] = <<>> /\ guard = w

\* ---- C17 -----------------------------------------------------------------
\* the positions of unlock() between acquiring the mutex and returning
UnlockSection == {"u_get", "u_spawn", "u_sleep", "u_process", "u_ps", "u_defunct", "u_store"}

\* C17 (as claimed): while unlock() on a vault is between acquiring the mutex
\* and returning, no call on another vault completes.
C17_OthersBlockedDuringUnlock ==
    [][\A a, b \in Vaults :
          (a # b /\ pc[a] \in UnlockSection) => ~(pc[b] # "idle" /\ pc'[b] = "idle")]_vars

\* C17 (amended): while unlock() on vault a is between acquiring the mutex
\* and returning, a call on another vault b never acquires the mutex and
\* does not get past its acquisition; the only call on b that completes is
\* an unlock() that finds b's handle tracked and returns success at once.
C17_OthersWaitForMutex ==
    [][\A a, b \in Vaults :
          (a # b /\ pc[a] \in UnlockSection) =>
              /\ guard = a /\ guard' # b
              /\ pc'[b] # pc[b] => pc[b] \in {"idle", "u_check", "c_start"}
              /\ (pc[b] # "idle" /\ pc'[b] = "idle") =>
                    /\ pc[b] = "u_check" /\ child[b] # NoChild
                    /\ result'[b] = "Ok" /\ trace'[b] = <<>>]_vars

\* unlock() on one vault is in its warm-up wait while a lock() called on
\* another, unlocked vault waits for the mutex
C17_Witness ==
    \E a, b \in Vaults :
       /\ a # b /\ pc[a] = "u_sleep" /\ op[a] = "unlock"
       /\ pc[b] = "l_acquire" /\ child[b] # NoChild /\ guard = a

\* ---- C18 -----------------------------------------------------------------
\* C18: when the kill of lock() fails, lock() returns CannotLockVault and the
\* handle is still tracked; the handle is dropped only by a kill that succeeded.
C18_FailedKillKeepsHandle ==
    \A v \in Vaults :
       /\ (pc[v] = "idle" /\ result[v] # "none" /\ Failed(v, "kill")) =>
              result[v] = "CannotLockVault" /\ child[v] = pre[v].child
       /\ (Did(v, "take") /\ pc[v] # "l_kill") =>
              \E i \in Events(v, "kill") : trace[v][i].b = 1

\* ---- C19 -----------------------------------------------------------------
\* ps, where it exists, has been run by the current call of v and found no marker
PsFoundNothing(v) ==
    /\ \E i \in Events(v, "ps") : trace[v][i].b = 0
    /\ \A i \in Events(v, "ps") : trace[v][i].b = 0

\* C19: self.child goes from None to Some only in the step of unlock() that
\* follows a probe which found the spawned process with a status that is not
\* Dead, Zombie or Stop (and, on POSIX, a ps output without "defunct"), and
\* it becomes the spawned pid; it goes from Some to None only in the kill
\* step of lock().  No other step changes it.
C19_ChildSetAndClearedOnlyThere ==
    [][\A v \in Vaults :
          child'[v] # child[v] =>
             \/ /\ child[v] = NoChild
                /\ pc[v] = "u_store"
                /\ child'[v] = SpawnedPid(v)
                /\ procs[child'[v]].owner = v
                /\ Probed(v, {"Run"})
                /\ ~Probed(v, {"Dead", "Zombie", "Stop", "NotFound"})
                /\ posix => PsFoundNothing(v)
             \/ /\ child[v] # NoChild
                /\ child'[v] = NoChild
                /\ pc[v] = "l_kill"]_vars

\* lock() has returned after taking a handle that an earlier unlock() had stored
C19_Witness ==
    \E v \in Vaults :
       /\ Returned(v, "lock") /\ pre[v].child # NoChild /\ Did(v, "take")
       /\ child[v] = NoChild /\ procs[pre[v].child].owner = v

\* ---- C20 -----------------------------------------------------------------
\* ps has reported the "defunct" marker to the current call of v
PsFoundDefunct(v) == \E i \in Events(v, "ps") : trace[v][i].b = 1

\* what the claim calls defunct
ClaimedDefunct(v) == Probed(v, {"Dead", "Zombie", "Stop"}) \/ (posix /\ PsFoundDefunct(v))

\* C20: in unlock() is_defunct is true exactly when the status is Dead,
\* Zombie or Stop, or (POSIX) ps printed "defunct"; ps is run exactly when
\* the process was found with another status on POSIX; a process that is not
\* in the process table gives CannotUnlockVault with no ps and no kill.
C20_DefunctClassification ==
    \A v \in Vaults :
       /\ pc[v] \in {"u_defunct", "u_store"} =>
              /\ is_defunct[v] <=> ClaimedDefunct(v)
              /\ is_defunct[v] <=> pc[v] = "u_defunct"
              /\ Did(v, "ps") <=> (posix /\ Probed(v, {"Run"}))
       /\ Did(v, "ps") => posix /\ Probed(v, {"Run"}) /\ ~Probed(v, {"Dead", "Zombie", "Stop"})
       /\ Did(v, "force_kill") => posix /\ ClaimedDefunct(v) /\ ~Did(v, "set_child")
       /\ Did(v, "set_child") => ~ClaimedDefunct(v) /\ Probed(v, {"Run"})
       /\ Probed(v, {"NotFound"}) =>
              /\ pc[v] = "idle" /\ result[v] = "CannotUnlockVault"
              /\ ~Did(v, "force_kill") /\ ~Did(v, "ps") /\ ~Did(v, "set_child")
              /\ child[v] = NoChild

\* unlock() has failed because ps printed "defunct" for a process whose status was Run
C20_Witness ==
    \E v \in Vaults :
       /\ Returned(v, "unlock") /\ Probed(v, {"Run"}) /\ PsFoundDefunct(v)
       /\ Did(v, "force_kill") /\ result[v] = "CannotUnlockVault"

\* ---- C21 -----------------------------------------------------------------
\* the last event of the current call of v before its last release
LastEvent(v) == trace[v][Len(trace[v]) - 1]

\* unlock() on v, called directly or as the re-unlock of a change operation,
\* has returned an error without reaching self.child = Some(child)
UnlockFailedEarly(v) ==
    /\ pc[v] = "idle"
    /\ result[v] \in VaultHandlerError
    /\ \/ op[v] = "unlock"
       \/ ReunlockFailed(v)
    /\ ~Did(v, "set_child")

\* the record of v when the unlock() of its current call started
RecordAtUnlock(v) ==
    IF op[v] = "unlock" THEN pre[v].rec
    ELSE WithField([pre[v].rec EXCEPT !.locked = TRUE], op[v], arg[v])

\* C21: an unlock() that fails before the handle is stored failed at the read
\* of the record, at spawn, at a process that was not found, or at a process
\* classified defunct; it leaves no handle tracked and the record as it was
\* when unlock() started, and it has not written locked = false.
C21_EarlyUnlockFailureChangesNothing ==
    \A v \in Vaults :
       UnlockFailedEarly(v) =>
           /\ \/ LastEvent(v).e = "get" /\ LastEvent(v).b = 0
              \/ Did(v, "spawn_failed")
              \/ Probed(v, {"NotFound"})
              \/ ClaimedDefunct(v)
           /\ child[v] = NoChild
           /\ store[v] = RecordAtUnlock(v)
           /\ ~WroteLocked(v, FALSE, TRUE) /\ ~WroteLocked(v, FALSE, FALSE)
           /\ op[v] = "unlock" => ~Did(v, "db_update_locked")

\* unlock() called directly has failed on a process that was not found, on a
\* vault whose flag said unlocked
C21_Witness ==
    \E v \in Vaults :
       /\ UnlockFailedEarly(v) /\ op[v] = "unlock" /\ Probed(v, {"NotFound"})
       /\ ~pre[v].rec.locked /\ store[v] = pre[v].rec /\ child[v] = NoChild

\* ---- C22 -----------------------------------------------------------------
\* the task hands the answer of its service call to handle_empty_response
HandlesResponse == task.pc = "handle" /\ task'.pc = "none"

\* the last message the parent was sent
LastToParent == rx_parent[Len(rx_parent)]

\* C22: when the service call of a task has returned and the view is gone,
\* handle_empty_response sends the parent VaultUpdated(true) for a success
\* and Error for a failure, and the view's channel gets nothing; when the
\* view is there, it sends the reply to the view (the reply of the call for
\* a success, an error reply for a failure) and nothing to the parent.  No
\* other step sends the parent VaultUpdated(true) or Error.
C22_ReplyGoesToParentWhenClosed ==
    [][/\ HandlesResponse =>
             /\ task.result = "ok" => result[task.id] = "Ok"
             /\ result[task.id] \in VaultHandlerError => task.result # "ok"
             /\ IF detail.open
                  THEN /\ rx_parent' = rx_parent
                       /\ Len(rx_service') = Len(rx_service) + 1
                       /\ rx_service'[Len(rx_service')] =
                             IF task.result = "ok" THEN task.f
                             ELSE IF task.result = "service_error" THEN "VaultServiceError"
                             ELSE "Error"
                       /\ task.result = "ok" => task.f \in EmptyReplies
                  ELSE /\ rx_service' = rx_service
                       /\ rx_parent' = Append(rx_parent,
                             IF task.result = "ok" THEN VaultUpdated(TRUE) ELSE UiError)
       /\ (rx_parent' # rx_parent /\ ~(HandlesResponse /\ ~detail.open)) =>
             rx_parent' = Append(rx_parent, VaultUpdated(FALSE))]_vars

\* a call that succeeded after the view was destroyed has been reported to the parent
C22_Witness ==
    /\ ~detail.open /\ task.pc = "none" /\ task.result = "ok"
    /\ result[task.id] = "Ok"
    /\ rx_parent # <<>> /\ LastToParent = VaultUpdated(TRUE)

\* ---- C23 -----------------------------------------------------------------
\* C23 (as claimed): when unlock() has returned success, a handle is tracked
\* and the persisted locked flag is false.
C23_SuccessMeansUnlocked ==
    \A v \in Vaults :
       (Returned(v, "unlock") /\ result[v] = "Ok") =>
           child[v] # NoChild /\ ~store[v].locked

\* C23 (amended): when unlock() has returned success, a handle is tracked.
\* If the call found no handle, it has spawned the process it now tracks and
\* written locked = false.  If it found a handle, it has returned at once
\* and the flag is the one it found, which is true after an unlock() whose
\* final store write failed.
C23_SuccessMeansTracked ==
    \A v \in Vaults :
       (Returned(v, "unlock") /\ result[v] = "Ok") =>
           /\ child[v] # NoChild
           /\ IF pre[v].child = NoChild
                THEN /\ child[v] = SpawnedPid(v)
                     /\ WroteLocked(v, FALSE, TRUE)
                     /\ store[v] = [pre[v].rec EXCEPT !.locked = FALSE]
                ELSE /\ child[v] = pre[v].child
                     /\ store[v] = pre[v].rec
                     /\ trace[v] = <<>>

\* unlock() has returned success on a tracked handle while the flag says locked
C23_Witness ==
    \E v \in Vaults :
       /\ Returned(v, "unlock") /\ result[v] = "Ok"
       /\ pre[v].child # NoChild /\ child[v] = pre[v].child
       /\ store[v].locked

\* ---- C24 -----------------------------------------------------------------
\* every vault starts locked with no handle tracked, and only the supervisor
\* writes the store
InitLocked ==
    /\ Init
    /\ \A v \in Vaults : store[v].locked

SpecLocked == InitLocked /\ [][Next]_vars

\* C24: started from locked = true with no handle, in every state a vault
\* whose persisted flag is false has a handle tracked, whatever fails.
C24_UnlockedFlagMeansTracked ==
    \A v \in Vaults : ~store[v].locked => child[v] # NoChild

\* lock() has failed at its store write: the flag still says unlocked and
\* the handle is still tracked
C24_Witness ==
    \E v \in Vaults :
       /\ Returned(v, "lock") /\ WroteLocked(v, TRUE, FALSE)
       /\ ~store[v].locked /\ child[v] # NoChild

\* ---- C25 -----------------------------------------------------------------
\* a step of the call in progress on v that waits for nothing but the
\* external call it makes
Step(v) ==
    \/ lock_update(v) \/ lock_kill(v) \/ lock_umount(v)
    \/ unlock_check(v) \/ unlock_get(v) \/ unlock_spawn(v) \/ unlock_sleep(v)
    \/ unlock_process(v) \/ unlock_ps(v) \/ unlock_defunct(v) \/ unlock_store(v)
    \/ change_start(v) \/ change_update(v)

\* the call in progress on v gets the mutex
Acquire(v) == lock_acquire(v) \/ unlock_acquire(v) \/ change_acquire(v)

\* every external call returns and the runtime goes on polling a task that
\* can run; a task that waits for the mutex gets it once it stays free
Fairness == \A v \in Vaults : WF_vars(Step(v)) /\ WF_vars(Acquire(v))

\* a POSIX platform, where lock() and unlock() make every external call
\* they can make
InitFair == InitLocked /\ posix

SpecFair == InitFair /\ [][Next]_vars /\ Fairness

\* C25: every call that was made returns; a handler that has returned does
\* not hold the mutex, a handler that is about to acquire the mutex does not
\* hold it, and the mutex is held only by a handler inside a critical
\* section.  (A wait that never ends would leave a call in progress for ever.)
C25_EveryCallReturns ==
    /\ [](\A v \in Vaults :
            /\ pc[v] = "idle" => guard # v
            /\ AtAcquire(v) => guard # v
            /\ guard = v => InCriticalSection(v))
    /\ \A v \in Vaults : (pc[v] # "idle") ~> (pc[v] = "idle" /\ result[v] # "none")

\* calls on two vaults have both returned, one with an error and one with
\* success, and the mutex is free
C25_Witness ==
    \E v, w \in Vaults :
       /\ v # w
       /\ Returned(v, "unlock") /\ result[v] = "CannotUnlockVault" /\ Did(v, "spawn")
       /\ Returned(w, "change_data_dir") /\ result[w] = "Ok"
       /\ HeldCount(v) = 0 /\ HeldCount(w) = 0
       /\ guard = NoVault

\* ---- C26 -----------------------------------------------------------------
\* the field of the record that the reply constructor f stands for
FieldOf(rec, f) == IF f = "ChangeMountPoint" THEN rec.mount_point ELSE rec.data_dir

\* C26: when the service call that follows the pick of a new mount point or
\* data dir has returned success, the persisted field is the picked path.
C26_PickedPathPersisted ==
    (/\ task.f \in {"ChangeMountPoint", "ChangeDataDir"}
     /\ task.pc = "handle"
     /\ task.result = "ok")
        => FieldOf(store[task.id], task.f) = task.picked

\* ---- vaults that share a mount point -------------------------------------
\* what a successful change_mount_point(path) on a locked vault leaves in
\* its trace
ChangedTrace(path) ==
    <<Ev("acquire", 0, 0, ""), Ev("update_change_mount_point", path, 1, ""),
      Ev("release", 0, 0, "")>>

\* the handlers after change_mount_point(path) has succeeded on every vault,
\* each of them locked: all records hold the same mount point
SharedState(path) ==
    /\ store = [v \in Vaults |-> [FreshRecord(v) EXCEPT !.mount_point = path]]
    /\ child = [v \in Vaults |-> NoChild]
    /\ procs = <<>>
    /\ guard = NoVault
    /\ pc = [v \in Vaults |-> "idle"]
    /\ op = [v \in Vaults |-> "change_mount_point"]
    /\ arg = [v \in Vaults |-> path]
    /\ unlocked = [v \in Vaults |-> FALSE]
    /\ vault = [v \in Vaults |-> NoRecord]
    /\ new_child = [v \in Vaults |-> NoChild]
    /\ is_defunct = [v \in Vaults |-> FALSE]
    /\ result = [v \in Vaults |-> "Ok"]
    /\ trace = [v \in Vaults |-> ChangedTrace(path)]
    /\ pre = [v \in Vaults |-> [rec |-> FreshRecord(v), child |-> NoChild]]

\* some path is the mount point of every vault
ReachesShared == \E path \in NewPaths : SharedState(path)

\* the system started from there, the calls counted from there
InitShared ==
    /\ posix \in BOOLEAN
    /\ ReachesShared
    /\ ncalls = 0
    /\ NoFrontEnd

SpecShared == InitShared /\ [][Next]_vars

\* ---- C27 -----------------------------------------------------------------
\* the handler of vault a takes a step
Moves(a) == pc'[a] # pc[a] \/ trace'[a] # trace[a]

\* the events that step adds to the trace of a
NewEvents(a) ==
    IF pc[a] = "idle" THEN <<>>
    ELSE SubSeq(trace'[a], Len(trace[a]) + 1, Len(trace'[a]))

\* a step of a leaves the record, the handle and the processes of b alone
\* and sends no kill to a process of b
LeavesAlone(a, b) ==
    /\ store'[b] = store[b]
    /\ child'[b] = child[b]
    /\ \A p \in DOMAIN procs : procs[p].owner = b => procs'[p] = procs[p]
    /\ \A i \in DOMAIN NewEvents(a) :
          NewEvents(a)[i].e \in {"take", "kill", "force_kill"} =>
              procs[NewEvents(a)[i].a].owner = a

\* C27 (as claimed): a step of an operation on vault a changes neither the
\* record nor the handle of another vault b, sends no kill or force-kill to
\* a process of b and issues no unmount of b's mount point.
C27_OthersUntouched ==
    [][\A a, b \in Vaults :
          (a # b /\ Moves(a)) =>
              /\ LeavesAlone(a, b)
              /\ \A i \in DOMAIN NewEvents(a) :
                    NewEvents(a)[i].e = "umount" =>
                        NewEvents(a)[i].a # store[b].mount_point]_vars

\* C27 (amended): a step of an operation on vault a changes neither the
\* record nor the handle of another vault b and sends no kill or force-kill
\* to a process of b; the unmount it issues is the one of the mount point in
\* a's own record, which is b's mount point too exactly when both records
\* hold the same path.
C27_OwnMountPointOnly ==
    [][\A a, b \in Vaults :
          (a # b /\ Moves(a)) =>
              /\ LeavesAlone(a, b)
              /\ \A i \in DOMAIN NewEvents(a) :
                    NewEvents(a)[i].e = "umount" =>
                        /\ NewEvents(a)[i].a = store[a].mount_point
                        /\ NewEvents(a)[i].a = store[b].mount_point
                              <=> store[a].mount_point = store[b].mount_point]_vars

\* lock() on one vault has unmounted the path that is also the mount point
\* of another vault, whose record and handle are as they were
C27_Witness ==
    \E a, b \in Vaults :
       /\ a # b /\ Returned(a, "lock")
       /\ \E i \in Events(a, "umount") : trace[a][i].a = store[b].mount_point
       /\ store[b] = [FreshRecord(b) EXCEPT !.mount_point = store[a].mount_point]
       /\ child[b] = NoChild

====
